---- MODULE Spec2Model ----
(***************************************************************************)
(* Model of the Monty Hall simulator: the trial state machine (Game) and   *)
(* the batch aggregator (GameSeries) of src/montyhall.py, configured as in *)
(* src/run.py.                                                             *)
(*                                                                         *)
(* Three specifications share the variables:                               *)
(*   Spec        one Game, constructed from a configuration's rules, on    *)
(*               which play runs one step per call it makes (choose,       *)
(*               reveal, reroll, choose) and which simulate then folds;    *)
(*   SpecSeries  GameSeries.simulate, one step per iteration of its loop   *)
(*               (construct a Game, play it to the end, fold it);          *)
(*   SpecCalls   a Game on which initialize_state, choose and reveal are   *)
(*               called in any order;                                      *)
(*   SpecFair    Spec with the recursion of play followed without limit    *)
(*               and with fair random draws.                               *)
(* Random draws are nondeterministic choices over the drawn-from set.      *)
(***************************************************************************)
EXTENDS Integers, FiniteSets, Sequences

\* ---------------------------------------------------------------- bounds
\* largest door count / goat count / max_doors value a configuration names
MaxDoors == 3
\* largest number of trials one series runs in total
MaxGames == 2
\* largest number of rerolls explored within one trial of a series
MaxRerolls == 2
\* levels of play's recursion followed when one Game is played call by call
MaxRecursion == 11

\* ------------------------------------------------------- program constants
\* Python's None, for an unset rule or an unset choice
None == -1
\* Game.min_doors
MinDoors == 3
\* the door count Game falls back to when max_doors is unset
DefaultMaxDoors == 3
\* the reroll count above which play prints its diagnostic
RerollAlert == 10

NoExc == "none"

PlayerStrategies == {"stay", "random", "update"}
\* "bribe" stands for any strategy string reveal does not support
HostStrategies == {"goat", "random", "bribe"}

\* Python truthiness of an int-or-None, and the `a or b` expression
Truthy(x) == x # None /\ x # 0
Or(a, b) == IF Truthy(a) THEN a ELSE b

Min(S) == CHOOSE x \in S : \A y \in S : x <= y

RECURSIVE SumOver(_, _)
SumOver(f, S) ==
    IF S = {} THEN 0
    ELSE LET x == CHOOSE y \in S : TRUE IN f[x] + SumOver(f, S \ {x})

\* the configuration literal of run.py
DefaultConfig ==
    [games |-> 10000, n_doors |-> 3, n_goats |-> None, max_doors |-> None,
     player |-> "update", host |-> "goat"]

\* the values a rule may be given: unset or a number
RuleValues == {None} \cup (0..MaxDoors)

\* configurations a series is constructed with: every door and goat rule up
\* to MaxDoors; max_doors unset, below min_doors or at the largest door count
Configs ==
    [games : {MaxGames},
     n_doors : {None} \cup (1..MaxDoors),
     n_goats : RuleValues,
     max_doors : {None, MinDoors - 1, MaxDoors},
     player : PlayerStrategies,
     host : HostStrategies]

VARIABLES
    cfg,        \* GameSeries.config as passed in (rules and strategies)
    stats,      \* GameSeries.stats: win, rerolls, per-bucket total and wins
    history,    \* len(GameSeries.history): the code only ever appends to it
    todo,       \* iterations of simulate's loop still to run
    pc,         \* position in play or simulate, or "api" under SpecCalls
    exc,        \* the exception that propagated out, or NoExc
    n_doors,    \* Game.n_doors
    n_goats,    \* Game.n_goats
    max_doors,  \* Game.max_doors
    args,       \* Game.args, the (n_doors, n_goats) request
    prizes,     \* Game.state['prizes']
    visible,    \* Game.state['visible']
    choice,     \* Game.choice
    win,        \* Game.win
    rerolls,    \* Game.rerolls
    first,      \* the choice play's first choose made in this attempt
    call,       \* the last method called on the Game and its strategy
    ret         \* whether the last reveal returned True (reroll required)

seriesvars == <<cfg, stats, history, todo>>
vars == <<cfg, stats, history, todo, pc, exc, n_doors, n_goats, max_doors,
          args, prizes, visible, choice, win, rerolls, first, call, ret>>

\* the fields of the Game that choose and reveal read
self ==
    [n_doors |-> n_doors, n_goats |-> n_goats, prizes |-> prizes,
     visible |-> visible, choice |-> choice]

Doors(g) == 0..(g.n_doors - 1)

\* ------------------------------------------------ Game.initialize_state
\* the door counts line 35 can produce; empty when rng.integers raises
DoorCounts(req_doors, maxd) ==
    IF Truthy(req_doors) THEN {req_doors}
    ELSE {k + MinDoors : k \in 0..(maxd - MinDoors)}

\* the goat counts line 36 can produce for a door count
GoatCounts(req_goats, nd) ==
    IF Truthy(req_goats) THEN {req_goats} ELSE 0..nd

\* mutant of Layouts: the ng drawn doors keep their prizes and the others
\* get the goats
LayoutsPrizesDrawn(nd, ng) ==
    {p \in [0..(nd - 1) -> BOOLEAN] :
        Cardinality({d \in 0..(nd - 1) : p[d]}) = ng}

\* the layouts lines 39-46 can produce: ng distinct doors hold goats
Layouts(nd, ng) ==
    {p \in [0..(nd - 1) -> BOOLEAN] :
        Cardinality({d \in 0..(nd - 1) : ~p[d]}) = ng}

\* a Game as initialize_state leaves it
Fresh(nd, ng, p, e) ==
    [exc |-> e, n_doors |-> nd, n_goats |-> ng, prizes |-> p,
     visible |-> [d \in 0..(nd - 1) |-> FALSE], choice |-> None]

\* the results of initialize_state: a layout, or ValueError from
\* rng.integers (line 35: no door count to draw, nothing assigned yet) or
\* from rng.choice (line 45: more goats than doors, state already assigned)
InitResults(req_doors, req_goats, maxd) ==
    IF DoorCounts(req_doors, maxd) = {}
    THEN {Fresh(0, 0, <<>>, "ValueError")}
    ELSE UNION {UNION {
           IF ng > nd
           THEN {Fresh(nd, ng, [d \in 0..(nd - 1) |-> TRUE], "ValueError")}
           ELSE {Fresh(nd, ng, p, NoExc) : p \in Layouts(nd, ng)} :
             ng \in GoatCounts(req_goats, nd)} :
           nd \in DoorCounts(req_doors, maxd)}

\* ----------------------------------------------------------- Game.choose
\* line 54: the doors that are visible and hold a prize
prizeviz(g) == {d \in Doors(g) : g.visible[d] /\ g.prizes[d]}

\* mutant of Taken: the override of lines 54-55 left out
TakenNoOverride(g) == g.choice

\* lines 54-55: the choice after the "take a revealed prize" override
Taken(g) == IF prizeviz(g) # {} THEN Min(prizeviz(g)) ELSE g.choice

\* lines 65-66: the closed doors
ClosedDoors(g) == {d \in Doors(g) : ~g.visible[d]}

\* mutant of ChooseOptions: update forgets to remove the current choice
ChooseOptionsKeepChoice(g, strategy) == ClosedDoors(g)

\* lines 67-76: the doors the strategy draws from
ChooseOptions(g, strategy) ==
    IF strategy = "update" /\ Taken(g) # None
    THEN ClosedDoors(g) \ {Taken(g)}
    ELSE ClosedDoors(g)

\* the results of choose(strategy): the new choice, or ValueError from
\* rng.integers(0) when nothing is left to draw from
ChooseResults(g, strategy) ==
    IF strategy = "stay"
    THEN {[exc |-> NoExc, choice |-> Taken(g)]}
    ELSE IF ChooseOptions(g, strategy) = {}
    THEN {[exc |-> "ValueError", choice |-> Taken(g)]}
    ELSE {[exc |-> NoExc, choice |-> d] : d \in ChooseOptions(g, strategy)}

\* ----------------------------------------------------------- Game.reveal
\* mutant of RevealOptions: the current choice is not taken out of the pool
RevealOptionsWithChoice(g, strategy) ==
    IF strategy = "goat"
    THEN {d \in Doors(g) : ~g.prizes[d]}
    ELSE Doors(g)

\* mutant of RevealOptions: the goat policy opens any unchosen door
RevealOptionsAnyDoor(g, strategy) == Doors(g) \ {g.choice}

\* lines 85-88 and 96: the doors the host may open
RevealOptions(g, strategy) ==
    IF strategy = "goat"
    THEN {d \in Doors(g) : ~g.prizes[d]} \ {g.choice}
    ELSE Doors(g) \ {g.choice}

\* mutant of Opened: the visible array is rebuilt with only door d open
OpenedAlone(g, d) == [e \in Doors(g) |-> e = d]

\* line 102: door d opened
Opened(g, d) == [g.visible EXCEPT ![d] = TRUE]

\* the results of reveal(strategy): reroll required (True returned, nothing
\* changed), a door opened, UnboundLocalError at line 102 for a strategy
\* that assigned no options, or ValueError from rng.integers(0)
RevealResults(g, strategy) ==
    IF strategy \notin {"goat", "random"}
    THEN {[exc |-> "UnboundLocalError", ret |-> FALSE, visible |-> g.visible]}
    ELSE IF RevealOptions(g, strategy) = {}
    THEN IF strategy = "goat"
         THEN {[exc |-> NoExc, ret |-> TRUE, visible |-> g.visible]}
         ELSE {[exc |-> "ValueError", ret |-> FALSE, visible |-> g.visible]}
    ELSE {[exc |-> NoExc, ret |-> FALSE, visible |-> Opened(g, d)] :
            d \in RevealOptions(g, strategy)}

\* ------------------------------------------------------------ Game.play
\* what play leaves behind: how it ended ("resolved", "reroll" for a pass
\* that asks for a reroll, "raised"), the Game's fields and the last call
Outcome(kind, e, g, w, f, c, k) ==
    [kind |-> kind, exc |-> e, n_doors |-> g.n_doors, n_goats |-> g.n_goats,
     prizes |-> g.prizes, visible |-> g.visible, choice |-> g.choice,
     win |-> w, first |-> f, call |-> c, rerolls |-> k]

\* lines 121-123 on Game g (first choice f, k rerolls so far)
SecondPass(g, player, f, k) ==
    {IF r.exc # NoExc
     THEN Outcome("raised", r.exc, [g EXCEPT !.choice = r.choice], FALSE, f,
                  <<"choose", player>>, k)
     ELSE Outcome("resolved", NoExc, [g EXCEPT !.choice = r.choice],
                  g.prizes[r.choice], f, <<"choose", player>>, k) :
       r \in ChooseResults(g, player)}

\* line 113 on Game g, and what follows a reveal that opened a door
RevealPass(g, player, host, k) ==
    UNION {IF r.exc # NoExc
           THEN {Outcome("raised", r.exc, g, FALSE, g.choice,
                         <<"reveal", host>>, k)}
           ELSE IF r.ret
           THEN {Outcome("reroll", NoExc, g, FALSE, g.choice,
                         <<"reveal", host>>, k)}
           ELSE SecondPass([g EXCEPT !.visible = r.visible], player,
                           g.choice, k) :
             r \in RevealResults(g, host)}

\* lines 110-123 on a freshly initialized Game g: one pass of play's body
OnePass(g, player, host, k) ==
    UNION {IF r.exc # NoExc
           THEN {Outcome("raised", r.exc, [g EXCEPT !.choice = r.choice],
                         FALSE, None, <<"choose", "random">>, k)}
           ELSE RevealPass([g EXCEPT !.choice = r.choice], player, host, k) :
             r \in ChooseResults(g, "random")}

\* Game(...).play(player, host) with k rerolls counted so far: every way it
\* ends, the recursion of line 118 followed MaxRerolls deep
RECURSIVE PlayResults(_, _, _, _, _, _)
PlayResults(req_doors, req_goats, maxd, player, host, k) ==
    LET inits == InitResults(req_doors, req_goats, maxd)
        passes == UNION {OnePass(o, player, host, k) :
                           o \in {i \in inits : i.exc = NoExc}}
    IN  {Outcome("raised", o.exc, o, FALSE, None,
                 <<"initialize_state", "none">>, k) :
           o \in {i \in inits : i.exc # NoExc}}
        \cup {a \in passes : a.kind # "reroll"}
        \cup (IF (\E a \in passes : a.kind = "reroll") /\ k < MaxRerolls
              THEN PlayResults(req_doors, req_goats, maxd, player, host,
                               k + 1)
              ELSE {})

\* ---------------------------------------------------------- GameSeries
\* __init__, lines 129-130: rules.max_doors after the constructor
SeriesMaxDoors == Or(cfg.max_doors, cfg.n_doors)

\* the goat-count buckets lines 150 and 174 range over
Buckets == IF SeriesMaxDoors = None THEN {} ELSE 0..SeriesMaxDoors

\* Game.__init__ line 19, given the rules the series passes
GameMaxDoors == Or(SeriesMaxDoors, DefaultMaxDoors)

\* the defaultdict(int) of line 134: every counter reads 0
EmptyStats ==
    [win |-> 0, rerolls |-> 0,
     goats |-> [b \in Buckets |-> 0],
     goats_wins |-> [b \in Buckets |-> 0]]

\* what simulate reads of a played Game g (getattr, lines 172 and 176), and
\* how play ended
Played(g) ==
    [kind |-> g.kind, exc |-> g.exc, n_goats |-> g.n_goats, win |-> g.win,
     rerolls |-> g.rerolls]

\* mutant of FoldTotals: the Game's rerolls are not added
FoldTotalsWinOnly(s, g) ==
    [s EXCEPT !.win = @ + (IF g.win THEN 1 ELSE 0)]

\* lines 171-172: the aggregate counters after folding Game g
FoldTotals(s, g) ==
    [s EXCEPT !.win = @ + (IF g.win THEN 1 ELSE 0),
              !.rerolls = @ + g.rerolls]

\* mutant of FoldBuckets: a win is counted in every bucket
FoldBucketsWinEverywhere(s, g) ==
    [s EXCEPT
       !.goats = [b \in Buckets |-> @[b] + (IF b = g.n_goats THEN 1 ELSE 0)],
       !.goats_wins = [b \in Buckets |-> @[b] + (IF g.win THEN 1 ELSE 0)]]

\* lines 174-177: the bucket counters after folding Game g
FoldBuckets(s, g) ==
    [s EXCEPT
       !.goats = [b \in Buckets |-> @[b] + (IF b = g.n_goats THEN 1 ELSE 0)],
       !.goats_wins = [b \in Buckets |->
                         @[b] + (IF b = g.n_goats /\ g.win THEN 1 ELSE 0)]]

\* -------------------------------------------------------- method calls
\* initialize_state(req_doors, req_goats) ending with result o
initialize_state(req_doors, req_goats, o) ==
    /\ o \in InitResults(req_doors, req_goats, max_doors)
    /\ choice' = None
    /\ win' = FALSE
    /\ args' = <<req_doors, req_goats>>
    /\ n_doors' = o.n_doors
    /\ n_goats' = o.n_goats
    /\ prizes' = o.prizes
    /\ visible' = o.visible
    /\ exc' = o.exc
    /\ call' = <<"initialize_state", "none">>
    /\ UNCHANGED max_doors

\* choose(strategy) ending with result r
choose(strategy, r) ==
    /\ r \in ChooseResults(self, strategy)
    /\ choice' = r.choice
    /\ exc' = r.exc
    /\ call' = <<"choose", strategy>>
    /\ UNCHANGED <<n_doors, n_goats, max_doors, args, prizes, visible,
                   rerolls, ret>>

\* reveal(strategy) ending with result r
reveal(strategy, r) ==
    /\ r \in RevealResults(self, strategy)
    /\ visible' = r.visible
    /\ ret' = r.ret
    /\ exc' = r.exc
    /\ call' = <<"reveal", strategy>>
    /\ UNCHANGED <<n_doors, n_goats, max_doors, args, prizes, choice, win,
                   rerolls>>

\* a Game just constructed with the request rq = (n_doors, n_goats) and
\* max_doors md: __init__, lines 17-26, when it completes
Constructed(rq, md) ==
    /\ max_doors = md
    /\ args = rq
    /\ \E o \in InitResults(rq[1], rq[2], md) :
          /\ o.exc = NoExc
          /\ n_doors = o.n_doors
          /\ n_goats = o.n_goats
          /\ prizes = o.prizes
          /\ visible = o.visible
    /\ choice = None
    /\ win = FALSE
    /\ rerolls = 0
    /\ exc = NoExc
    /\ first = None
    /\ call = <<"initialize_state", "none">>
    /\ ret = FALSE

\* a series just constructed with configuration c: GameSeries.__init__
SeriesConstructed(c) ==
    /\ cfg = c
    /\ stats = EmptyStats
    /\ history = 0
    /\ todo = 0

\* --------------------------------------------- Spec: play, call by call
\* a Game constructed the way simulate constructs it (line 168)
Init ==
    /\ \E c \in Configs : SeriesConstructed(c)
    /\ Constructed(<<cfg.n_doors, cfg.n_goats>>, GameMaxDoors)
    /\ pc = "fresh"

\* play, line 110: the first choice
FirstChoice ==
    /\ pc = "fresh"
    /\ \E r \in ChooseResults(self, "random") :
          /\ choose("random", r)
          /\ first' = r.choice
          /\ pc' = IF r.exc = NoExc THEN "chosen" ELSE "raised"
    /\ UNCHANGED win
    /\ UNCHANGED seriesvars

\* play, line 113: the host's reveal and the test of what it returned
Reveal ==
    /\ pc = "chosen"
    /\ \E r \in RevealResults(self, cfg.host) :
          /\ reveal(cfg.host, r)
          /\ pc' = IF r.exc # NoExc THEN "raised"
                   ELSE IF r.ret THEN "reroll" ELSE "revealed"
    /\ UNCHANGED first
    /\ UNCHANGED seriesvars

\* play, line 115: whether the diagnostic is printed at reroll count k
Alerted(k) == k > RerollAlert

\* mutant of Replay: play starts again on the layout it already has
ReplaySameLayout ==
    /\ pc = "reroll"
    /\ pc' = "fresh"
    /\ choice' = None
    /\ first' = None
    /\ call' = <<"initialize_state", "none">>
    /\ UNCHANGED <<n_doors, n_goats, max_doors, args, prizes, visible, win,
                   exc, ret>>
    /\ UNCHANGED seriesvars

\* play, lines 117-118: reinitialize from the stored request and play again
\* from the top
Replay ==
    /\ pc = "reroll"
    /\ \E o \in InitResults(args[1], args[2], max_doors) :
          /\ initialize_state(args[1], args[2], o)
          /\ pc' = IF o.exc = NoExc THEN "fresh" ELSE "raised"
    /\ first' = None
    /\ UNCHANGED ret
    /\ UNCHANGED seriesvars

\* mutant of Reroll: play gives up once the diagnostic is due
RerollUntilAlert ==
    /\ rerolls < RerollAlert
    /\ rerolls' = rerolls + 1
    /\ Replay

\* play, lines 114-118: count the reroll, then replay. The diagnostic of
\* lines 115-116 only prints. Each reroll is one more level of recursion;
\* the model follows MaxRecursion of them
Reroll ==
    /\ rerolls < MaxRecursion
    /\ rerolls' = rerolls + 1
    /\ Replay

\* what simulate reads of the Game it has played (getattr, lines 172, 176)
Finished == [n_goats |-> n_goats, win |-> win, rerolls |-> rerolls]

\* simulate, lines 170-177, after play has returned: append the Game to the
\* history and fold it into the counters; range(None + 1) at line 174
\* raises TypeError after the totals are folded
Fold ==
    /\ pc = "resolved"
    /\ history' = history + 1
    /\ stats' = IF SeriesMaxDoors = None THEN FoldTotals(stats, Finished)
                ELSE FoldBuckets(FoldTotals(stats, Finished), Finished)
    /\ exc' = IF SeriesMaxDoors = None THEN "TypeError" ELSE NoExc
    /\ pc' = IF SeriesMaxDoors = None THEN "raised" ELSE "folded"
    /\ UNCHANGED <<cfg, todo, n_doors, n_goats, max_doors, args, prizes,
                   visible, choice, win, rerolls, first, call, ret>>

\* play, lines 121-123: the second choice and the outcome
SecondChoice ==
    /\ pc = "revealed"
    /\ \E r \in ChooseResults(self, cfg.player) :
          /\ choose(cfg.player, r)
          /\ win' = IF r.exc = NoExc THEN prizes[r.choice] ELSE win
          /\ pc' = IF r.exc = NoExc THEN "resolved" ELSE "raised"
    /\ UNCHANGED first
    /\ UNCHANGED seriesvars

Next ==
    \/ FirstChoice
    \/ Reveal
    \/ Reroll
    \/ SecondChoice
    \/ Fold

Spec == Init /\ [][Next]_vars

\* ------------------------- SpecFair: play without limit, with fair draws
\* a reroll past the levels of recursion whose count is followed: the same
\* replay, the counter no longer followed
RerollOn ==
    /\ rerolls = MaxRecursion
    /\ UNCHANGED rerolls
    /\ Replay

NextFair ==
    \/ Next
    \/ RerollOn

\* the draws of lines 36 and 45 place a goat
GoatDrawn == (Reroll \/ RerollOn) /\ n_goats' > 0

\* the draw of line 68 picks a first door that leaves the host a goat
GoatLeft == FirstChoice /\ {d \in Doors(self) : ~prizes[d]} \ {choice'} # {}

\* every call play makes returns, and a draw of the generator that stays
\* possible again and again comes up in the end
SpecFair ==
    /\ Init
    /\ [][NextFair]_vars
    /\ WF_vars(NextFair)
    /\ SF_vars(GoatDrawn)
    /\ SF_vars(GoatLeft)

\* ------------------------------------ SpecSeries: simulate, trial by trial
\* a series just constructed; no Game exists yet
InitSeries ==
    /\ \E c \in Configs : SeriesConstructed(c)
    /\ pc = "ready"
    /\ exc = NoExc
    /\ n_doors = 0
    /\ n_goats = 0
    /\ max_doors = None
    /\ args = <<None, None>>
    /\ prizes = <<>>
    /\ visible = <<>>
    /\ choice = None
    /\ win = FALSE
    /\ rerolls = 0
    /\ first = None
    /\ call = <<"none", "none">>
    /\ ret = FALSE

\* simulate(n), lines 164-165: the loop is entered with n or config.games
Simulate(n) ==
    /\ pc = "ready"
    /\ history + Or(n, cfg.games) <= MaxGames
    /\ todo' = Or(n, cfg.games)
    /\ pc' = "loop"
    /\ UNCHANGED <<cfg, stats, history, exc, n_doors, n_goats, max_doors,
                   args, prizes, visible, choice, win, rerolls, first, call,
                   ret>>

\* one iteration of simulate's loop, lines 166-177: construct a Game, play
\* it to the end, append it to the history and fold it into the counters.
\* The Game lives on in the history alone.
\* An exception of the Game leaves the loop before the fold, and
\* range(None + 1) at line 174 raises TypeError after the totals are folded
Trial ==
    /\ pc = "loop"
    /\ todo > 0
    /\ \E g \in {Played(r) : r \in PlayResults(cfg.n_doors, cfg.n_goats,
                                                GameMaxDoors, cfg.player,
                                                cfg.host, 0)} :
          /\ history' = IF g.kind = "raised" THEN history
                        ELSE history + 1
          /\ stats' = IF g.kind = "raised" THEN stats
                      ELSE IF SeriesMaxDoors = None THEN FoldTotals(stats, g)
                      ELSE FoldBuckets(FoldTotals(stats, g), g)
          /\ exc' = IF g.kind = "raised" THEN g.exc
                    ELSE IF SeriesMaxDoors = None THEN "TypeError"
                    ELSE NoExc
          /\ pc' = IF g.kind = "raised" \/ SeriesMaxDoors = None
                   THEN "raised" ELSE "loop"
          /\ todo' = IF g.kind = "raised" THEN todo ELSE todo - 1
    /\ UNCHANGED <<cfg, n_doors, n_goats, max_doors, args, prizes, visible,
                   choice, win, rerolls, first, call, ret>>

\* simulate returns once its loop has run out
SimulateReturn ==
    /\ pc = "loop"
    /\ todo = 0
    /\ pc' = "ready"
    /\ UNCHANGED <<cfg, stats, history, todo, exc, n_doors, n_goats,
                   max_doors, args, prizes, visible, choice, win, rerolls,
                   first, call, ret>>

NextSeries ==
    \/ \E n \in {None} \cup (0..MaxGames) : Simulate(n)
    \/ Trial
    \/ SimulateReturn

SpecSeries == InitSeries /\ [][NextSeries]_vars

\* --------------------------------- SpecCalls: the methods in any order
\* a Game constructed with any request and max_doors __init__ completes on
InitCalls ==
    /\ SeriesConstructed(DefaultConfig)
    /\ \E rq \in RuleValues \X RuleValues :
          \E md \in {DefaultMaxDoors, MaxDoors} : Constructed(rq, md)
    /\ pc = "api"

\* initialize_state(*self.args), as play calls it
CallInitialize ==
    /\ pc = "api"
    /\ \E o \in InitResults(args[1], args[2], max_doors) :
          /\ initialize_state(args[1], args[2], o)
          /\ pc' = IF o.exc = NoExc THEN "api" ELSE "raised"
    /\ UNCHANGED <<rerolls, first, ret>>
    /\ UNCHANGED seriesvars

CallChoose(strategy) ==
    /\ pc = "api"
    /\ \E r \in ChooseResults(self, strategy) :
          /\ choose(strategy, r)
          /\ pc' = IF r.exc = NoExc THEN "api" ELSE "raised"
    /\ UNCHANGED <<win, first>>
    /\ UNCHANGED seriesvars

CallReveal(strategy) ==
    /\ pc = "api"
    /\ \E r \in RevealResults(self, strategy) :
          /\ reveal(strategy, r)
          /\ pc' = IF r.exc = NoExc THEN "api" ELSE "raised"
    /\ UNCHANGED first
    /\ UNCHANGED seriesvars

NextCalls ==
    \/ CallInitialize
    \/ \E s \in PlayerStrategies : CallChoose(s)
    \/ \E s \in HostStrategies : CallReveal(s)

SpecCalls == InitCalls /\ [][NextCalls]_vars

\* ======================================================== the claims
\* the classic game: three doors, two goats, the host opens a goat
Classic == cfg.n_doors = 3 /\ cfg.n_goats = 2 /\ cfg.host = "goat"

\* C1: in the classic game play never asks for a reroll; player=stay wins
\* exactly when the first choice held the prize and player=update wins
\* exactly when the first choice held a goat
C1_ClassicOutcome ==
    Classic =>
      /\ pc # "reroll"
      /\ ~ret
      /\ (pc = "resolved" /\ cfg.player = "stay") => (win <=> prizes[first])
      /\ (pc = "resolved" /\ cfg.player = "update") => (win <=> ~prizes[first])

C1_Witness ==
    /\ Classic
    /\ pc = "resolved"
    /\ cfg.player = "update"
    /\ win
    /\ ~prizes[first]

\* the doors a step opens, and the doors it closes
NewlyOpened == {d \in Doors(self) : ~visible[d] /\ visible'[d]}
NewlyClosed == {d \in Doors(self) : visible[d] /\ ~visible'[d]}

\* C2: a reveal under the goat or the random policy never opens the door
\* that is the player's choice when reveal is called, and leaves the choice
\* as it was, whatever calls came before
C2_RevealSparesChoice ==
    [][\A s \in {"goat", "random"} :
         call' = <<"reveal", s>> =>
           /\ choice \notin NewlyOpened
           /\ choice' = choice]_vars

C2_Witness ==
    /\ call = <<"reveal", "random">>
    /\ choice # None
    /\ ~visible[choice]
    /\ \E d \in Doors(self) : visible[d]

\* C3: in a trial played with host=goat no door is ever both visible and
\* prize-bearing
C3_GoatRevealShowsNoPrize ==
    cfg.host = "goat" => prizeviz(self) = {}

C3_Witness ==
    /\ cfg.host = "goat"
    /\ pc = "revealed"
    /\ \E d \in Doors(self) : visible[d] /\ ~prizes[d]

\* C4 (as claimed): whenever simulate has returned, the bucket totals over
\* 0..max_doors sum to the number of trials run
C4_BucketsSumToTrials ==
    pc = "ready" => SumOver(stats.goats, Buckets) = history

\* C5 (as claimed): a second choose called while a prize is visible leaves
\* the choice on a visible prize door, for every player strategy
C5_ChooseTakesVisiblePrize ==
    [][(pc = "revealed" /\ pc' = "resolved" /\ prizeviz(self) # {})
         => choice' \in prizeviz(self)]_vars

\* C6 (as claimed): with player=update and three doors or more the resolved
\* choice differs from the first choice and is not visible
C6_UpdateSwitches ==
    (pc = "resolved" /\ cfg.player = "update" /\ n_doors >= 3)
      => (choice # first /\ ~visible[choice])

C8_ZeroGoatsNeverResolve ==
    (cfg.n_goats = 0 /\ cfg.host = "goat") => (n_goats = 0 /\ pc # "resolved")

\* C9 (as claimed): under a host strategy reveal does not support, reveal
\* returns normally and nothing is raised
C9_UnsupportedHostReturns ==
    cfg.host \notin {"goat", "random"} => (exc = NoExc /\ pc # "raised")

\* C10 (as claimed): reveal('goat'), called when a goat door other than the
\* choice exists, asks for no reroll and changes exactly one entry of
\* visible, from false to true
C10_GoatRevealOpensOne ==
    [][(call' = <<"reveal", "goat">> /\ RevealOptions(self, "goat") # {}) =>
         /\ ~ret'
         /\ Cardinality(NewlyOpened) = 1
         /\ NewlyClosed = {}]_vars

\* C10 (amended): such a reveal asks for no reroll, closes no door and opens
\* at most one, a goat door other than the choice; it opens exactly one
\* when no goat door other than the choice is visible already
C10_GoatRevealOpensOneClosedGoat ==
    [][(call' = <<"reveal", "goat">> /\ RevealOptions(self, "goat") # {}) =>
         /\ ~ret'
         /\ NewlyClosed = {}
         /\ NewlyOpened \subseteq RevealOptions(self, "goat")
         /\ Cardinality(NewlyOpened) <= 1
         /\ (\A d \in RevealOptions(self, "goat") : ~visible[d])
              => Cardinality(NewlyOpened) = 1]_vars

C10_Witness ==
    /\ call = <<"reveal", "goat">>
    /\ ~ret
    /\ exc = NoExc
    /\ choice # None
    /\ Cardinality({d \in Doors(self) : visible[d]}) = 1

\* the doors holding a goat and the doors holding a prize
GoatDoors == {d \in Doors(self) : ~prizes[d]}
PrizeDoors == {d \in Doors(self) : prizes[d]}

\* a step that is a call of choose or of reveal
ChooseOrReveal == call'[1] \in {"choose", "reveal"}

\* C11: in every state of a trial from its initialization on, n_goats
\* entries of prizes are false and n_doors - n_goats are true, and no call
\* of choose or reveal changes prizes
C11_PrizesMatchGoatCount ==
    /\ [](pc # "raised" =>
            /\ Cardinality(GoatDoors) = n_goats
            /\ Cardinality(PrizeDoors) = n_doors - n_goats)
    /\ [][ChooseOrReveal => prizes' = prizes]_vars

C11_Witness ==
    /\ pc = "resolved"
    /\ rerolls > 0
    /\ Cardinality(GoatDoors) = 1
    /\ Cardinality(PrizeDoors) = 2

\* C12: between one initialization and the next no call of choose or reveal
\* closes a door that is open, in whatever order they are called; a step
\* that closes a door is an initialization, and it closes them all
C12_VisibleStaysOpen ==
    [][/\ ChooseOrReveal => NewlyClosed = {}
       /\ (call'[1] = "initialize_state" /\ exc' = NoExc)
            => \A d \in DOMAIN visible' : ~visible'[d]]_vars

C12_Witness ==
    /\ call[1] = "reveal"
    /\ exc = NoExc
    /\ Cardinality({d \in Doors(self) : visible[d]}) >= 2

\* C13: reveal('goat') returns True exactly when no goat door other than
\* the current choice exists, and then visible, prizes and choice are as
\* they were
C13_GoatRerollIffNoOtherGoat ==
    [][call' = <<"reveal", "goat">> =>
         /\ ret' <=> (GoatDoors \ {choice} = {})
         /\ ret' => (visible' = visible /\ prizes' = prizes
                      /\ choice' = choice)]_vars

C13_Witness ==
    /\ call = <<"reveal", "goat">>
    /\ ret
    /\ GoatDoors = {choice}
    /\ \A d \in Doors(self) : ~visible[d]

\* C14 (as claimed): simulate(n) runs n trials for every n >= 0: a call
\* simulate(n) enters the loop with n iterations to run
C14_SimulateRunsN ==
    [][\A n \in 0..MaxGames : Simulate(n) => todo' = n]_vars

\* a step in which reveal tells play that a reroll is required
RerollSignal == pc = "chosen" /\ call'[1] = "reveal" /\ ret'

FeasibleGoatGame ==
    /\ n_doors >= 3
    /\ cfg.host = "goat"
    /\ cfg.n_goats = None \/ cfg.n_goats \in 1..n_doors

\* C16: with three doors or more, host=goat and the goat count unset or
\* fixed in 1..n_doors, play reaches the resolved state under fair draws,
\* and nothing is raised on the way
C16_FairPlayResolves ==
    /\ FeasibleGoatGame => <>(pc = "resolved")
    /\ [](FeasibleGoatGame => (pc = "raised" => exc = "TypeError"))

C16_Witness ==
    /\ FeasibleGoatGame
    /\ pc = "resolved"
    /\ rerolls = MaxRecursion

\* no layout the stored request can produce leaves the host a goat to
\* open, whatever door the player picks first
NoLayoutFeasible ==
    \A o \in InitResults(args[1], args[2], max_doors) :
       o.exc = NoExc =>
         \A d \in Doors(o) : {e \in Doors(o) : ~o.prizes[e]} \ {d} = {}

\* C17: under host=goat with a request no layout of which is feasible,
\* play never resolves and raises nothing, and a reroll that is due is
\* taken whatever the counter has reached: passing RerollAlert stops
\* nothing
C17_RerollsNotCapped ==
    (cfg.host = "goat" /\ NoLayoutFeasible) =>
      /\ pc \in {"fresh", "chosen", "reroll"}
      /\ exc = NoExc
      /\ (pc = "reroll" /\ rerolls < MaxRecursion) => ENABLED Reroll

C17_Witness ==
    /\ cfg.host = "goat"
    /\ cfg.n_doors = 1
    /\ NoLayoutFeasible
    /\ Alerted(rerolls)
    /\ pc = "chosen"

\* play has returned its result
PlayReturned == pc \in {"resolved", "folded"} \/ exc = "TypeError"

\* C18: a trial resolved under a supported host strategy with three doors
\* or more has exactly one visible door, a choice that is a door, not a
\* visible goat, and win = prizes[choice]; until play returns win is false
C18_ResolvedTrialShape ==
    /\ (PlayReturned /\ cfg.host \in {"goat", "random"} /\ n_doors >= 3) =>
         /\ Cardinality({d \in Doors(self) : visible[d]}) = 1
         /\ choice \in Doors(self)
         /\ ~visible[choice] \/ prizes[choice]
         /\ win <=> prizes[choice]
    /\ ~PlayReturned => ~win

C18_Witness ==
    /\ pc = "resolved"
    /\ cfg.host = "random"
    /\ cfg.player = "update"
    /\ n_doors >= 3
    /\ prizeviz(self) # {}
    /\ ~visible[choice]
    /\ ~win

\* the bucket totals and the bucket wins, summed over the buckets
BucketTotal(st) == SumOver(st.goats, Buckets)
BucketWins(st) == SumOver(st.goats_wins, Buckets)

\* C19: in every state of a series each bucket has 0 <= wins <= total, the
\* 'win' counter is at most the number of trials in the history, and when
\* every trial of the history fell in a bucket 'win' is the sum of the
\* bucket wins; a trial adds at most one to 'win' and to the buckets
\* however many attempts it rerolled, and the counters move only when a
\* trial enters the history
C19_CountersConsistent ==
    /\ [](/\ \A b \in Buckets :
               0 <= stats.goats_wins[b] /\ stats.goats_wins[b] <= stats.goats[b]
           /\ 0 <= stats.win /\ stats.win <= history
           /\ BucketTotal(stats) = history => stats.win = BucketWins(stats))
    /\ [][/\ history' = history => stats' = stats
          /\ history' # history =>
               /\ history' = history + 1
               /\ stats'.win - stats.win \in {0, 1}
               /\ BucketTotal(stats') - BucketTotal(stats) \in {0, 1}
               /\ BucketWins(stats') - BucketWins(stats)
                    \in {0, stats'.win - stats.win}]_vars

C19_Witness ==
    /\ pc = "ready"
    /\ history = MaxGames
    /\ stats.rerolls >= 2
    /\ stats.win = 1
    /\ BucketTotal(stats) = history
    /\ BucketWins(stats) = 1

\* C20: under host=goat no folded trial has zero goats: the 0-goats bucket
\* total and wins stay 0, also when the goat count is drawn from
\* 0..n_doors
C20_NoZeroGoatTrialFolded ==
    (cfg.host = "goat" /\ 0 \in Buckets) =>
      (stats.goats[0] = 0 /\ stats.goats_wins[0] = 0)

C20_Witness ==
    /\ cfg.host = "goat"
    /\ cfg.n_goats = None
    /\ 0 \in Buckets
    /\ history = MaxGames
    /\ stats.rerolls >= 1
    /\ stats.goats[0] = 0
    /\ stats.goats[1] >= 1

====
